---- MODULE Spec2Model ----
(***************************************************************************)
(* Session state machine of the Smart Farming Assistant (src/app.py).      *)
(*                                                                         *)
(* One step of the model is one Streamlit script run: main() executed from *)
(* the sidebar down to the routed page function with at most one widget    *)
(* event.  st.rerun() ends the run and schedules a fresh, event-free run   *)
(* (variable rerun); st.stop() and an uncaught exception end the run and   *)
(* keep every mutation of st.session_state made before them.               *)
(*                                                                         *)
(* Text is modelled as a sequence of one-character strings, so that        *)
(* truthiness, split(), lower(), strip() and f-string concatenation are    *)
(* computed the way Python computes them.                                  *)
(***************************************************************************)
EXTENDS Naturals, Integers, Sequences, FiniteSets

VARIABLES
    profile,            \* st.session_state.profile
    recommendations,    \* st.session_state.recommendations
    chat_history,       \* st.session_state.chat_history
    weather_data,       \* st.session_state.weather_data
    current_page,       \* st.session_state.current_page
    client,             \* module-level OpenAI client: TRUE when configured
    rerun,              \* st.rerun() was called: the next run carries no event
    last,               \* history variable: what the last script run did
    chat_req,           \* history variable: per chat message, how its request ended
    weather_for,        \* history variable: location the cached snapshot was fetched for
    before_append,      \* history variable: the collection before the latest append
    signed_out          \* history variable: "Sign Out" was pressed in this session

vars == <<profile, recommendations, chat_history, weather_data, current_page,
          client, rerun, last, chat_req, weather_for, before_append, signed_out>>

session == <<profile, recommendations, chat_history, weather_data, current_page>>

-----------------------------------------------------------------------------
(* Bounds of the model *)

\* Spec: submits are offered while the session stores fewer records and
\* messages than this
MaxItems == 3
\* SpecHistory, SpecForms, SpecWeather: the same bound in those scenarios
MaxHistoryItems == 3
MaxFormItems == 1
MaxWeatherItems == 1

-----------------------------------------------------------------------------
(* Python values *)

None == [none |-> TRUE]

Empty == << >>

Blank == <<" ">>
Ann == <<"A","n","n">>
Austin == <<"A","u","s","t","i","n">>
Pune == <<"P","u","n","e">>
Corn == <<"C","o","r","n">>
June == <<"J","u","n","e">>
July == <<"J","u","l","y">>
Holes == <<"h","o","l","e","s">>
Advice == <<"O","k">>
Question == <<"Q","?">>

SmallLabel == <<"S","m","a","l","l"," ","(","<"," ","5"," ","a","c","r","e","s",")">>
MediumLabel == <<"M","e","d","i","u","m"," ","(","5","-","5","0"," ","a","c","r","e","s",")">>
LargeLabel == <<"L","a","r","g","e"," ","(","5","0","-","2","0","0"," ","a","c","r","e","s",")">>
VeryLargeLabel == <<"V","e","r","y"," ","L","a","r","g","e"," ","(","2","0","0","+"," ","a","c","r","e","s",")">>
BeginnerLabel == <<"B","e","g","i","n","n","e","r"," ","(","0","-","2"," ","y","e","a","r","s",")">>
IntermediateLabel == <<"I","n","t","e","r","m","e","d","i","a","t","e"," ","(","3","-","1","0"," ","y","e","a","r","s",")">>
ExperiencedLabel == <<"E","x","p","e","r","i","e","n","c","e","d"," ","(","1","0","+"," ","y","e","a","r","s",")">>

CropTitlePrefix == <<"C","r","o","p"," ","R","e","c","o","m","m","e","n","d","a","t","i","o","n","s"," ","f","o","r"," ">>
SoilTitle == <<"S","o","i","l"," ","H","e","a","l","t","h"," ","A","n","a","l","y","s","i","s">>
PestTitlePrefix == <<"P","e","s","t"," ","I","d","e","n","t","i","f","i","c","a","t","i","o","n"," ","f","o","r"," ">>

UpperCase == <<"A","B","C","D","E","F","G","H","I","J","K","L","M","N","O","P","Q","R","S","T","U","V","W","X","Y","Z">>
LowerCase == <<"a","b","c","d","e","f","g","h","i","j","k","l","m","n","o","p","q","r","s","t","u","v","w","x","y","z">>

\* the defaults of the profile.get(...) calls in the prompts
NotSpecified == <<"N","o","t"," ","s","p","e","c","i","f","i","e","d">>
NoneText == <<"N","o","n","e">>
Various == <<"V","a","r","i","o","u","s">>
VariousCrops == <<"V","a","r","i","o","u","s"," ","c","r","o","p","s">>
Farmer == <<"F","a","r","m","e","r">>
DefaultFarmSize == <<"s","m","a","l","l">>
DefaultExperience == <<"b","e","g","i","n","n","e","r">>

Whitespace == {" "}

\* bool(x) of a str
Truthy(s) == Len(s) > 0

\* str.lower() of one character
LowerChar(c) ==
    IF \E i \in 1..Len(UpperCase) : UpperCase[i] = c
    THEN LowerCase[CHOOSE i \in 1..Len(UpperCase) : UpperCase[i] = c]
    ELSE c

\* str.lower()
Lower(s) == [i \in 1..Len(s) |-> LowerChar(s[i])]

\* str.split()[0]: the first maximal run of non-whitespace characters
FirstToken(s) ==
    LET starts == {i \in 1..Len(s) : s[i] \notin Whitespace}
        first == CHOOSE i \in starts : \A j \in starts : i <= j
        stops == {i \in first..Len(s) : s[i] \in Whitespace}
        stop == IF stops = {} THEN Len(s) + 1
                ELSE CHOOSE i \in stops : \A j \in stops : i <= j
    IN  SubSeq(s, first, stop - 1)

\* the derivation changed to keep the label's case
category_keeps_case(label) == FirstToken(label)

\* label.split()[0].lower()
category(label) == Lower(FirstToken(label))

\* list.remove(x): drops the first element equal to x
list_remove(list, x) ==
    LET hits == {i \in 1..Len(list) : list[i] = x}
        k == CHOOSE i \in hits : \A j \in hits : i <= j
    IN  SubSeq(list, 1, k - 1) \o SubSeq(list, k + 1, Len(list))

\* round(x) of a temperature given in tenths of a degree (ties to even)
py_round(t10) ==
    LET q == t10 \div 10
        r == t10 % 10
    IN  IF r < 5 THEN q
        ELSE IF r > 5 THEN q + 1
        ELSE IF q % 2 = 0 THEN q ELSE q + 1

-----------------------------------------------------------------------------
(* What the user can type or select, and what the services can answer *)

Pages == {"welcome", "profile_setup", "dashboard", "crop_planner", "soil_optimizer",
          "pest_identifier", "weather_alerts", "cost_tips", "chat", "history", "settings"}

SidebarPages == {"dashboard", "history", "chat", "settings"}

ToolPages == {"crop_planner", "pest_identifier", "soil_optimizer", "cost_tips",
              "weather_alerts", "chat"}

FarmSizeLabels == {SmallLabel, MediumLabel, LargeLabel, VeryLargeLabel}
ExperienceLabels == {BeginnerLabel, IntermediateLabel, ExperiencedLabel}

\* response.choices[0].message.content, or the call raising
LlmTexts == {Empty, Advice}
LlmOutcomes ==
    {[raised |-> TRUE, content |-> Empty]}
        \cup {[raised |-> FALSE, content |-> t] : t \in LlmTexts}

\* geocoding: the request or .json() raising, [], a non-list body, a result list
GeoOutcomes == {"raise", "empty", "malformed", "found"}

ClearSky == [temp10 |-> 215, humidity |-> 40, description |-> "clear sky", icon |-> "01d"]
LightRain == [temp10 |-> 304, humidity |-> 80, description |-> "light rain", icon |-> "10d"]

\* weather: the request or .json() raising, a body without the keys, a payload
WxFailures == {[kind |-> "raise", body |-> None], [kind |-> "malformed", body |-> None]}
WxOutcomes(payloads) == WxFailures \cup {[kind |-> "ok", body |-> w] : w \in payloads}

\* The session scenario: one farmer who fills the profile forms in validly
\* (or leaves a required field of the setup form empty); every outcome of the
\* completion service.
SessionInputs ==
    [names |-> {Empty, Ann}, locations |-> {Empty, Austin},
     edit_names |-> {Ann}, edit_locations |-> {Austin}, crops |-> {Corn},
     labels |-> {<<SmallLabel, BeginnerLabel>>},
     months |-> {June, July}, pest_crops |-> {Empty, Corn},
     symptoms |-> {Empty, Holes}, questions |-> {Question}, clock |-> {1},
     llm |-> LlmOutcomes, geo |-> {"empty", "found"},
     wx |-> WxOutcomes({ClearSky}) \ {[kind |-> "malformed", body |-> None]},
     max_items |-> MaxItems]

\* The history scenario: the session scenario with a clock that can differ
\* between two submits.  datetime.now() is the naive local wall clock, so a
\* later reading can also repeat an earlier one.
HistoryInputs ==
    [SessionInputs EXCEPT !.clock = {1, 2}, !.months = {June},
                          !.max_items = MaxHistoryItems]

\* The forms scenario: everything the forms accept (empty, whitespace-only and
\* filled text fields, every selectbox label), in a short session.
FormInputs ==
    [names |-> {Empty, Blank, Ann}, locations |-> {Empty, Blank, Austin},
     edit_names |-> {Empty, Blank, Ann}, edit_locations |-> {Empty, Blank, Austin},
     crops |-> {Empty, Corn},
     labels |-> {<<SmallLabel, BeginnerLabel>>, <<MediumLabel, IntermediateLabel>>,
                 <<LargeLabel, ExperiencedLabel>>, <<VeryLargeLabel, BeginnerLabel>>},
     months |-> {June, July}, pest_crops |-> {Empty, Corn}, symptoms |-> {Empty, Holes},
     questions |-> {Question}, clock |-> {1},
     llm |-> LlmOutcomes, geo |-> {"empty", "found"},
     wx |-> WxOutcomes({ClearSky}) \ {[kind |-> "malformed", body |-> None]},
     max_items |-> MaxFormItems]

\* The weather scenario: every outcome of the two weather requests, and a
\* farmer who moves or blanks the location, in a short session.
WeatherInputs ==
    [names |-> {Ann}, locations |-> {Austin, Pune},
     edit_names |-> {Ann}, edit_locations |-> {Empty, Austin, Pune}, crops |-> {Corn},
     labels |-> {<<SmallLabel, BeginnerLabel>>},
     months |-> {June}, pest_crops |-> {Corn}, symptoms |-> {Holes},
     questions |-> {Question}, clock |-> {1},
     llm |-> LlmOutcomes, geo |-> GeoOutcomes,
     wx |-> WxOutcomes({ClearSky, LightRain}),
     max_items |-> MaxWeatherItems]

-----------------------------------------------------------------------------
(* Helper functions of the program *)

\* call_openai changed to hand the error message back as the completion
\* instead of calling st.stop()
call_openai_returns_error(outcome) ==
    IF ~client
    THEN [halt |-> FALSE, ret |-> <<"E","r","r","o","r">>, calls |-> << >>]
    ELSE IF outcome.raised
    THEN [halt |-> FALSE, ret |-> <<"E","r","r","o","r">>, calls |-> <<"llm">>]
    ELSE [halt |-> FALSE, ret |-> outcome.content, calls |-> <<"llm">>]

\* call_openai changed to lose the client check: without a client the request
\* is attempted and its exception handled like any other
call_openai_unchecked(outcome) ==
    IF ~client \/ outcome.raised
    THEN [halt |-> TRUE, ret |-> Empty, calls |-> <<"llm">>]
    ELSE [halt |-> FALSE, ret |-> outcome.content, calls |-> <<"llm">>]

\* call_openai: halt is st.stop(); calls are the requests sent
call_openai(outcome) ==
    IF ~client
    THEN [halt |-> TRUE, ret |-> Empty, calls |-> << >>]
    ELSE IF outcome.raised
    THEN [halt |-> TRUE, ret |-> Empty, calls |-> <<"llm">>]
    ELSE [halt |-> FALSE, ret |-> outcome.content, calls |-> <<"llm">>]

\* fetch_weather changed to leave the geocoding lookup outside the try block
fetch_weather_unguarded(location, geo, wx) ==
    IF geo \in {"raise", "malformed"}
    THEN [ret |-> None, raised |-> TRUE, calls |-> <<"geo">>]
    ELSE IF geo = "empty"
    THEN [ret |-> None, raised |-> FALSE, calls |-> <<"geo">>]
    ELSE IF wx.kind \in {"raise", "malformed"}
    THEN [ret |-> None, raised |-> FALSE, calls |-> <<"geo", "weather">>]
    ELSE [ret |-> [temp |-> py_round(wx.body.temp10), humidity |-> wx.body.humidity,
                   description |-> wx.body.description, icon |-> wx.body.icon],
          raised |-> FALSE, calls |-> <<"geo", "weather">>]

\* fetch_weather: never raises, every exception becomes None
\* (raised stays FALSE); calls are the requests sent
fetch_weather(location, geo, wx) ==
    IF geo \in {"raise", "empty", "malformed"}
    THEN [ret |-> None, raised |-> FALSE, calls |-> <<"geo">>]
    ELSE IF wx.kind \in {"raise", "malformed"}
    THEN [ret |-> None, raised |-> FALSE, calls |-> <<"geo", "weather">>]
    ELSE [ret |-> [temp |-> py_round(wx.body.temp10), humidity |-> wx.body.humidity,
                   description |-> wx.body.description, icon |-> wx.body.icon],
          raised |-> FALSE, calls |-> <<"geo", "weather">>]

\* dashboard_page, weather block: the new cache, the local weather_data, the
\* requests sent, and for the history variables what the two services
\* answered and which location was looked up
dashboard_weather(geo, wx) ==
    IF profile # None /\ Truthy(profile.location)
    THEN IF weather_data = None
         THEN LET r == fetch_weather(profile.location, geo, wx)
              IN  [cache |-> r.ret, shown |-> r.ret, raised |-> r.raised,
                   calls |-> r.calls, geo |-> geo,
                   wx |-> IF geo = "found" THEN wx.kind ELSE "-",
                   for |-> IF r.ret # None THEN profile.location ELSE weather_for]
         ELSE [cache |-> weather_data, shown |-> weather_data, raised |-> FALSE,
               calls |-> << >>, geo |-> "-", wx |-> "-", for |-> weather_for]
    ELSE [cache |-> weather_data, shown |-> None, raised |-> FALSE, calls |-> << >>,
          geo |-> "-", wx |-> "-", for |-> weather_for]

\* what a script run did: the widget event, how the run ended, the requests
\* it sent
Did(ev, status, calls) ==
    [ev |-> ev, status |-> status, calls |-> calls, geo |-> "-", wx |-> "-",
     shown |-> None, prompt |-> None]

\* what a run of dashboard_page did
DidDashboard(ev, d) ==
    [ev |-> ev,
     status |-> IF d.raised \/ profile = None THEN "crashed" ELSE "ok",
     calls |-> d.calls, geo |-> d.geo, wx |-> d.wx, shown |-> d.shown,
     prompt |-> None]

\* dict.get(key, default): the default only when the key is missing
get(d, key, default) == IF key \in DOMAIN d THEN d[key] ELSE default

\* the profile values the f-string prompt of a page interpolates, by field
prompt_profile(ev) ==
    CASE ev = "crop_planner" ->
            [location |-> get(profile, "location", NotSpecified),
             farm_size |-> get(profile, "farm_size", DefaultFarmSize),
             primary_crops |-> get(profile, "primary_crops", NoneText),
             experience_level |-> get(profile, "experience_level", DefaultExperience)]
      [] ev = "soil_optimizer" ->
            [location |-> get(profile, "location", NotSpecified),
             primary_crops |-> get(profile, "primary_crops", VariousCrops),
             farm_size |-> get(profile, "farm_size", DefaultFarmSize)]
      [] ev = "pest_identifier" ->
            [location |-> get(profile, "location", NotSpecified),
             farm_size |-> get(profile, "farm_size", DefaultFarmSize)]
      [] ev = "chat" ->
            [full_name |-> get(profile, "full_name", Farmer),
             location |-> get(profile, "location", NotSpecified),
             farm_size |-> get(profile, "farm_size", DefaultFarmSize),
             primary_crops |-> get(profile, "primary_crops", Various),
             experience_level |-> get(profile, "experience_level", DefaultExperience)]

\* what a script run that built a prompt did
Asked(ev, status, calls) ==
    [Did(ev, status, calls) EXCEPT !.prompt = prompt_profile(ev)]

\* how the completion service answered a request: "failed" (no client, or the
\* call raised), "empty" (empty content) or "text"
Answer(outcome) ==
    IF ~client \/ outcome.raised THEN "failed"
    ELSE IF outcome.content = Empty THEN "empty"
    ELSE "text"

-----------------------------------------------------------------------------
Init ==
    /\ profile = None
    /\ recommendations = << >>
    /\ chat_history = << >>
    /\ weather_data = None
    /\ current_page = "welcome"
    /\ client \in BOOLEAN
    /\ rerun = FALSE
    /\ last = Did("start", "ok", << >>)
    /\ chat_req = << >>
    /\ weather_for = Empty
    /\ before_append = None
    /\ signed_out = FALSE

-----------------------------------------------------------------------------
(* Script runs that carry no widget event *)

\* main() with no event: the routed page is rendered; only dashboard_page
\* touches the session (its weather block).  With no Profile dashboard_page
\* raises on profile.get after the weather block.
Render(geo, wx) ==
    /\ IF current_page = "dashboard"
       THEN LET d == dashboard_weather(geo, wx)
            IN  /\ weather_data' = IF d.raised THEN weather_data ELSE d.cache
                /\ weather_for' = d.for
                /\ last' = DidDashboard("render", d)
       ELSE /\ UNCHANGED <<weather_data, weather_for>>
            /\ last' = Did("render", "ok", << >>)
    /\ rerun' = FALSE
    /\ UNCHANGED <<signed_out, profile, recommendations, chat_history, current_page, client,
                   chat_req, before_append>>

-----------------------------------------------------------------------------
(* Navigation *)

\* the sidebar buttons changed to drop the cached snapshot, so that the page
\* they open shows fresh weather
SidebarDropsSnapshot(page) ==
    /\ ~rerun
    /\ profile # None
    /\ current_page' = page
    /\ weather_data' = None
    /\ rerun' = TRUE
    /\ last' = Did("sidebar", "ok", << >>)
    /\ UNCHANGED <<signed_out, profile, recommendations, chat_history, client,
                   chat_req, weather_for, before_append>>

\* main(): a sidebar button, rendered only when a Profile is present
Sidebar(page) ==
    /\ ~rerun
    /\ profile # None
    /\ current_page' = page
    /\ rerun' = TRUE
    /\ last' = Did("sidebar", "ok", << >>)
    /\ UNCHANGED <<signed_out, profile, recommendations, chat_history, weather_data, client,
                   chat_req, weather_for, before_append>>

\* "Get Started" changed to open the dashboard whether or not a Profile exists
GetStartedOpensDashboard ==
    /\ ~rerun
    /\ current_page = "welcome"
    /\ current_page' = "dashboard"
    /\ rerun' = TRUE
    /\ last' = Did("get_started", "ok", << >>)
    /\ UNCHANGED <<signed_out, profile, recommendations, chat_history, weather_data, client,
                   chat_req, weather_for, before_append>>

\* welcome_page: "Get Started"
GetStarted ==
    /\ ~rerun
    /\ current_page = "welcome"
    /\ current_page' = IF profile = None THEN "profile_setup" ELSE "dashboard"
    /\ rerun' = TRUE
    /\ last' = Did("get_started", "ok", << >>)
    /\ UNCHANGED <<signed_out, profile, recommendations, chat_history, weather_data, client,
                   chat_req, weather_for, before_append>>

\* dashboard_page: a tool button; the weather block above it runs first
DashboardTool(page, geo, wx) ==
    /\ ~rerun
    /\ current_page = "dashboard"
    /\ profile # None
    /\ LET d == dashboard_weather(geo, wx)
       IN  /\ weather_data' = IF d.raised THEN weather_data ELSE d.cache
           /\ weather_for' = d.for
           /\ last' = DidDashboard("tool", d)
           /\ current_page' = IF d.raised THEN current_page ELSE page
           /\ rerun' = ~d.raised
    /\ UNCHANGED <<signed_out, profile, recommendations, chat_history, client, chat_req,
                   before_append>>

-----------------------------------------------------------------------------
(* Profile *)

\* profile_setup_page: "Create Profile"
CreateProfile(name, location, farm_size, crops, experience, now) ==
    /\ ~rerun
    /\ current_page = "profile_setup"
    /\ IF Truthy(name) /\ Truthy(location)
       THEN /\ profile' = [full_name |-> name,
                           location |-> location,
                           farm_size |-> category(farm_size),
                           primary_crops |-> crops,
                           experience_level |-> category(experience),
                           created_at |-> now]
            /\ current_page' = "dashboard"
            /\ rerun' = TRUE
            /\ last' = Did("create_profile", "ok", << >>)
       ELSE /\ UNCHANGED <<profile, current_page, rerun>>
            /\ last' = Did("create_profile", "rejected", << >>)
    /\ UNCHANGED <<signed_out, recommendations, chat_history, weather_data, client, chat_req,
                   weather_for, before_append>>

\* "Save Profile" changed to rebuild the Profile from the form, the fields the
\* form does not show falling back to their defaults
SaveProfileRebuilds(name, location, crops) ==
    /\ ~rerun
    /\ current_page = "settings"
    /\ profile # None
    /\ profile' = [full_name |-> name, location |-> location,
                   farm_size |-> <<"s","m","a","l","l">>, primary_crops |-> crops,
                   experience_level |-> <<"b","e","g","i","n","n","e","r">>,
                   created_at |-> profile.created_at]
    /\ last' = Did("save_profile", "ok", << >>)
    /\ UNCHANGED <<signed_out, recommendations, chat_history, weather_data, current_page,
                   client, rerun, chat_req, weather_for, before_append>>

\* settings_page: "Save Profile"
SaveProfile(name, location, crops) ==
    /\ ~rerun
    /\ current_page = "settings"
    /\ profile # None
    /\ profile' = [profile EXCEPT !.full_name = name, !.location = location,
                                  !.primary_crops = crops]
    /\ last' = Did("save_profile", "ok", << >>)
    /\ UNCHANGED <<signed_out, recommendations, chat_history, weather_data, current_page, client,
                   rerun, chat_req, weather_for, before_append>>

\* settings_page: "Clear Chat History"
ClearChat ==
    /\ ~rerun
    /\ current_page = "settings"
    /\ chat_history' = << >>
    /\ chat_req' = << >>
    /\ last' = Did("clear_chat", "ok", << >>)
    /\ UNCHANGED <<signed_out, profile, recommendations, weather_data, current_page, client,
                   rerun, weather_for, before_append>>

\* settings_page: "Clear Recommendations"
ClearRecommendations ==
    /\ ~rerun
    /\ current_page = "settings"
    /\ recommendations' = << >>
    /\ before_append' = None
    /\ last' = Did("clear_recommendations", "ok", << >>)
    /\ UNCHANGED <<signed_out, profile, chat_history, weather_data, current_page, client,
                   rerun, chat_req, weather_for>>

\* "Sign Out" changed to reset the whole session
SignOutResetsSession ==
    /\ ~rerun
    /\ current_page = "settings"
    /\ profile' = None
    /\ current_page' = "welcome"
    /\ recommendations' = << >>
    /\ chat_history' = << >>
    /\ chat_req' = << >>
    /\ before_append' = None
    /\ rerun' = TRUE
    /\ last' = Did("sign_out", "ok", << >>)
    /\ signed_out' = TRUE
    /\ UNCHANGED <<weather_data, client, weather_for>>

\* "Sign Out" changed to clear the Profile without leaving the settings page
SignOutStaysOnSettings ==
    /\ ~rerun
    /\ current_page = "settings"
    /\ profile' = None
    /\ rerun' = TRUE
    /\ signed_out' = TRUE
    /\ last' = Did("sign_out", "ok", << >>)
    /\ UNCHANGED <<recommendations, chat_history, weather_data, current_page, client,
                   chat_req, weather_for, before_append>>

\* settings_page: "Sign Out"
SignOut ==
    /\ ~rerun
    /\ current_page = "settings"
    /\ profile' = None
    /\ current_page' = "welcome"
    /\ rerun' = TRUE
    /\ signed_out' = TRUE
    /\ last' = Did("sign_out", "ok", << >>)
    /\ UNCHANGED <<recommendations, chat_history, weather_data, client, chat_req,
                   weather_for, before_append>>

-----------------------------------------------------------------------------
(* Advisory pages *)

\* The submit branch changed to put the new record first (the order the
\* history page shows)
advise_newest_first(ev, type, title, outcome, now) ==
    LET r == call_openai(outcome)
    IN  IF profile = None
        THEN /\ last' = Did(ev, "crashed", << >>)
             /\ UNCHANGED <<recommendations, before_append>>
        ELSE IF r.halt
        THEN /\ last' = Asked(ev, "stopped", r.calls)
             /\ UNCHANGED <<recommendations, before_append>>
        ELSE IF Truthy(r.ret)
        THEN /\ recommendations' =
                    <<[type |-> type, title |-> title, response |-> r.ret,
                       created_at |-> now]>> \o recommendations
             /\ before_append' = [list |-> recommendations]
             /\ last' = Asked(ev, "saved", r.calls)
        ELSE /\ last' = Asked(ev, "failed", r.calls)
             /\ UNCHANGED <<recommendations, before_append>>

\* The submit branch shared by crop_planner_page, soil_optimizer_page and
\* pest_identifier_page: the prompt reads st.session_state.profile (raising
\* when it is None), call_openai may st.stop(), and a truthy response is
\* appended to the recommendations.
advise(ev, type, title, outcome, now) ==
    LET r == call_openai(outcome)
    IN  IF profile = None
        THEN /\ last' = Did(ev, "crashed", << >>)
             /\ UNCHANGED <<recommendations, before_append>>
        ELSE IF r.halt
        THEN /\ last' = Asked(ev, "stopped", r.calls)
             /\ UNCHANGED <<recommendations, before_append>>
        ELSE IF Truthy(r.ret)
        THEN /\ recommendations' =
                    Append(recommendations,
                           [type |-> type, title |-> title, response |-> r.ret,
                            created_at |-> now])
             /\ before_append' = [list |-> recommendations]
             /\ last' = Asked(ev, "saved", r.calls)
        ELSE /\ last' = Asked(ev, "failed", r.calls)
             /\ UNCHANGED <<recommendations, before_append>>

\* crop_planner_page: "Get Recommendations"
CropPlanner(month, outcome, now) ==
    /\ ~rerun
    /\ current_page = "crop_planner"
    /\ advise("crop_planner", "crop_planner", CropTitlePrefix \o month, outcome, now)
    /\ UNCHANGED <<signed_out, profile, chat_history, weather_data, current_page, client, rerun,
                   chat_req, weather_for>>

\* soil_optimizer_page: "Analyze Soil"
SoilOptimizer(outcome, now) ==
    /\ ~rerun
    /\ current_page = "soil_optimizer"
    /\ advise("soil_optimizer", "soil_optimizer", SoilTitle, outcome, now)
    /\ UNCHANGED <<signed_out, profile, chat_history, weather_data, current_page, client, rerun,
                   chat_req, weather_for>>

\* "Identify Pest" changed to lose the required-field check
PestIdentifierUnvalidated(crop, symptoms, outcome, now) ==
    /\ ~rerun
    /\ current_page = "pest_identifier"
    /\ advise("pest_identifier", "pest_identifier", PestTitlePrefix \o crop, outcome, now)
    /\ UNCHANGED <<signed_out, profile, chat_history, weather_data, current_page, client,
                   rerun, chat_req, weather_for>>

\* pest_identifier_page: "Identify Pest"
PestIdentifier(crop, symptoms, outcome, now) ==
    /\ ~rerun
    /\ current_page = "pest_identifier"
    /\ IF Truthy(crop) /\ Truthy(symptoms)
       THEN advise("pest_identifier", "pest_identifier", PestTitlePrefix \o crop,
                   outcome, now)
       ELSE /\ last' = Did("pest_identifier", "rejected", << >>)
            /\ UNCHANGED <<recommendations, before_append>>
    /\ UNCHANGED <<signed_out, profile, chat_history, weather_data, current_page, client, rerun,
                   chat_req, weather_for>>

\* weather_alerts_page: "Get Weather Advice" renders static text
WeatherAlerts ==
    /\ ~rerun
    /\ current_page = "weather_alerts"
    /\ last' = Did("weather_alerts", "ok", << >>)
    /\ UNCHANGED <<signed_out, profile, recommendations, chat_history, weather_data, current_page,
                   client, rerun, chat_req, weather_for, before_append>>

\* cost_tips_page: "Get Tips" renders static text
CostTips ==
    /\ ~rerun
    /\ current_page = "cost_tips"
    /\ last' = Did("cost_tips", "ok", << >>)
    /\ UNCHANGED <<signed_out, profile, recommendations, chat_history, weather_data, current_page,
                   client, rerun, chat_req, weather_for, before_append>>

-----------------------------------------------------------------------------
(* Chat *)

\* chat_page changed to keep the transcript newest first
ChatNewestFirst(user_input, outcome) ==
    /\ ~rerun
    /\ current_page = "chat"
    /\ LET asked == <<[role |-> "user", content |-> user_input]>> \o chat_history
           r == call_openai(outcome)
       IN  IF profile = None
           THEN /\ chat_history' = asked
                /\ chat_req' = Append(chat_req, "crashed")
                /\ last' = Did("chat", "crashed", << >>)
                /\ UNCHANGED rerun
           ELSE IF r.halt
           THEN /\ chat_history' = asked
                /\ chat_req' = Append(chat_req, Answer(outcome))
                /\ last' = Asked("chat", "stopped", r.calls)
                /\ UNCHANGED rerun
           ELSE IF Truthy(r.ret)
           THEN /\ chat_history' = <<[role |-> "assistant", content |-> r.ret]>> \o asked
                /\ chat_req' = chat_req \o <<Answer(outcome), "-">>
                /\ last' = Asked("chat", "saved", r.calls)
                /\ rerun' = TRUE
           ELSE /\ chat_history' = asked
                /\ chat_req' = Append(chat_req, Answer(outcome))
                /\ last' = Asked("chat", "failed", r.calls)
                /\ rerun' = TRUE
    /\ UNCHANGED <<signed_out, profile, recommendations, weather_data, current_page,
                   client, weather_for, before_append>>

\* chat_page: a submitted chat input.  The user message is appended before
\* the prompt is built and the request sent; st.stop() skips st.rerun().
Chat(user_input, outcome) ==
    /\ ~rerun
    /\ current_page = "chat"
    /\ LET asked == Append(chat_history, [role |-> "user", content |-> user_input])
           r == call_openai(outcome)
       IN  IF profile = None
           THEN /\ chat_history' = asked
                /\ chat_req' = Append(chat_req, "crashed")
                /\ last' = Did("chat", "crashed", << >>)
                /\ UNCHANGED rerun
           ELSE IF r.halt
           THEN /\ chat_history' = asked
                /\ chat_req' = Append(chat_req, Answer(outcome))
                /\ last' = Asked("chat", "stopped", r.calls)
                /\ UNCHANGED rerun
           ELSE IF Truthy(r.ret)
           THEN /\ chat_history' =
                       Append(asked, [role |-> "assistant", content |-> r.ret])
                /\ chat_req' = chat_req \o <<Answer(outcome), "-">>
                /\ last' = Asked("chat", "saved", r.calls)
                /\ rerun' = TRUE
           ELSE /\ chat_history' = asked
                /\ chat_req' = Append(chat_req, Answer(outcome))
                /\ last' = Asked("chat", "failed", r.calls)
                /\ rerun' = TRUE
    /\ UNCHANGED <<signed_out, profile, recommendations, weather_data, current_page, client,
                   weather_for, before_append>>

-----------------------------------------------------------------------------
(* History *)

\* history_page: the "Delete" button of the i-th expander, newest first
\* (i counts from 0 over reversed(recommendations))
DeleteRecommendation(i) ==
    /\ ~rerun
    /\ current_page = "history"
    /\ i \in 0..(Len(recommendations) - 1)
    /\ LET rec == recommendations[Len(recommendations) - i]
       IN  recommendations' = list_remove(recommendations, rec)
    /\ before_append' = None
    /\ rerun' = TRUE
    /\ last' = Did("delete", "ok", << >>)
    /\ UNCHANGED <<signed_out, profile, chat_history, weather_data, current_page, client,
                   chat_req, weather_for>>

-----------------------------------------------------------------------------
\* the outcomes of a submit that needs a completion: none once the session
\* stores in.max_items records and messages
Submits(in) ==
    IF Len(recommendations) + Len(chat_history) < in.max_items THEN in.llm ELSE {}

\* main(): one script run, its widget event and inputs drawn from `in`
main(in) ==
    \/ \E geo \in in.geo, wx \in in.wx : Render(geo, wx)
    \/ \E page \in SidebarPages : Sidebar(page)
    \/ GetStarted
    \/ \E page \in ToolPages, geo \in in.geo, wx \in in.wx :
            DashboardTool(page, geo, wx)
    \/ \E name \in in.names, location \in in.locations,
          label \in in.labels, crops \in in.crops, now \in in.clock :
            CreateProfile(name, location, label[1], crops, label[2], now)
    \/ \E name \in in.edit_names, location \in in.edit_locations,
          crops \in in.crops :
            SaveProfile(name, location, crops)
    \/ ClearChat
    \/ ClearRecommendations
    \/ SignOut
    \/ \E month \in in.months, outcome \in Submits(in), now \in in.clock :
            CropPlanner(month, outcome, now)
    \/ \E outcome \in Submits(in), now \in in.clock : SoilOptimizer(outcome, now)
    \/ \E crop \in in.pest_crops, symptoms \in in.symptoms,
          outcome \in Submits(in), now \in in.clock :
            PestIdentifier(crop, symptoms, outcome, now)
    \/ WeatherAlerts
    \/ CostTips
    \/ \E user_input \in in.questions, outcome \in Submits(in) :
            Chat(user_input, outcome)
    \/ \E i \in 0..in.max_items : DeleteRecommendation(i)

Next == main(SessionInputs)

Spec == Init /\ [][Next]_vars

NextHistory == main(HistoryInputs)

SpecHistory == Init /\ [][NextHistory]_vars

NextForms == main(FormInputs)

SpecForms == Init /\ [][NextForms]_vars

NextWeather == main(WeatherInputs)

SpecWeather == Init /\ [][NextWeather]_vars

-----------------------------------------------------------------------------
(* The delete operation of history_page on its own *)

\* records of the shape the advisory pages append
StoredRecords ==
    {[type |-> "crop_planner", title |-> CropTitlePrefix \o June, response |-> Advice,
      created_at |-> 1],
     [type |-> "crop_planner", title |-> CropTitlePrefix \o July, response |-> Advice,
      created_at |-> 1],
     [type |-> "soil_optimizer", title |-> SoilTitle, response |-> Advice,
      created_at |-> 2]}

\* the collections of at most three stored records
StoredLists ==
    {<< >>} \cup {<<a>> : a \in StoredRecords}
            \cup {<<a, b>> : a \in StoredRecords, b \in StoredRecords}
            \cup {<<a, b, c>> : a \in StoredRecords, b \in StoredRecords,
                                c \in StoredRecords}

\* st.session_state.recommendations.remove(rec); st.rerun() for any record:
\* list.remove raises ValueError when no element equals rec, which ends the
\* run with the collection as it was
recommendations_remove(rec) ==
    /\ current_page = "history"
    /\ IF \E i \in 1..Len(recommendations) : recommendations[i] = rec
       THEN /\ recommendations' = list_remove(recommendations, rec)
            /\ last' = Did("delete", "ok", << >>)
       ELSE /\ recommendations' = recommendations
            /\ last' = Did("delete", "crashed", << >>)
    /\ before_append' = None
    /\ rerun' = FALSE
    /\ UNCHANGED <<signed_out, profile, chat_history, weather_data, current_page, client,
                   chat_req, weather_for>>

\* the history page of a session that stores some records
InitRemove ==
    /\ profile = [full_name |-> Ann, location |-> Austin, farm_size |-> category(SmallLabel),
                  primary_crops |-> Corn, experience_level |-> category(BeginnerLabel),
                  created_at |-> 1]
    /\ recommendations \in StoredLists
    /\ chat_history = << >>
    /\ weather_data = None
    /\ current_page = "history"
    /\ client \in BOOLEAN
    /\ rerun = FALSE
    /\ last = Did("render", "ok", << >>)
    /\ chat_req = << >>
    /\ weather_for = Empty
    /\ before_append = None
    /\ signed_out = FALSE

NextRemove == \E rec \in StoredRecords : recommendations_remove(rec)

SpecRemove == InitRemove /\ [][NextRemove]_vars

-----------------------------------------------------------------------------
(* Vocabulary of the properties *)

NameTexts == {Empty, Blank, Ann}
LocationTexts == {Empty, Blank, Austin, Pune}
CropTexts == {Empty, Corn}
MonthTexts == {June, July}
ClockValues == {1, 2}

\* the category names of the data model, and the first word of "Very Large"
Small == <<"s","m","a","l","l">>
Medium == <<"m","e","d","i","u","m">>
Large == <<"l","a","r","g","e">>
VeryLarge == <<"v","e","r","y","_","l","a","r","g","e">>
Very == <<"v","e","r","y">>
Beginner == <<"b","e","g","i","n","n","e","r">>
Intermediate == <<"i","n","t","e","r","m","e","d","i","a","t","e">>
Experienced == <<"e","x","p","e","r","i","e","n","c","e","d">>

Range(seq) == {seq[i] : i \in 1..Len(seq)}

\* s with leading and trailing whitespace removed
Strip(s) ==
    LET solid == {i \in 1..Len(s) : s[i] \notin Whitespace}
    IN  IF solid = {} THEN Empty
        ELSE SubSeq(s, CHOOSE i \in solid : \A j \in solid : i <= j,
                       CHOOSE i \in solid : \A j \in solid : j <= i)

\* part occurs in whole as a contiguous run
Contains(whole, part) ==
    \E k \in 0..(Len(whole) - Len(part)) : SubSeq(whole, k + 1, k + Len(part)) = part

\* list without the element at position k
RemoveAt(list, k) == SubSeq(list, 1, k - 1) \o SubSeq(list, k + 1, Len(list))

Users == {i \in 1..Len(chat_history) : chat_history[i].role = "user"}

\* the message after chat_history[i], if any, is not an assistant message
Unanswered(i) == i = Len(chat_history) \/ chat_history[i + 1].role = "user"

\* chat_history[i] is followed by exactly one assistant message
AnsweredOnce(i) ==
    /\ i < Len(chat_history)
    /\ chat_history[i + 1].role = "assistant"
    /\ Unanswered(i + 1)

\* the step is a run of dashboard_page
DashboardVisit == current_page = "dashboard" /\ last'.ev \in {"render", "tool"}

-----------------------------------------------------------------------------
(* C1 .. C10 *)

\* C1: a submit whose completion request fails (no client, or the call
\* raises) leaves the recommendations and the chat transcript as they were.
C1_FailedRequestCommitsNothing ==
    [][last'.status = "stopped" =>
            /\ recommendations' = recommendations
            /\ chat_history' = chat_history]_vars

\* C2 as stated: every user message whose request was answered, with an empty
\* text too, is followed by exactly one assistant message, and every user
\* message whose request failed by none.
C2_AnsweredIncludingEmpty ==
    \A i \in Users :
        /\ chat_req[i] \in {"text", "empty"} => AnsweredOnce(i)
        /\ chat_req[i] = "failed" => Unanswered(i)

\* C2 amended: every user message whose request returned a non-empty text is
\* followed by exactly one assistant message; every user message whose request
\* failed or returned an empty text is followed by none.
C2_AnsweredIffText ==
    /\ Len(chat_req) = Len(chat_history)
    /\ \A i \in Users :
        /\ chat_req[i] = "text" => AnsweredOnce(i)
        /\ chat_req[i] \in {"failed", "empty"} => Unanswered(i)

C2_Witness ==
    /\ Len(chat_history) = 3
    /\ chat_req = <<"failed", "text", "-">>

\* C3: the Profile is absent or has full_name and location non-empty.
C3_ProfileAbsentOrFilled ==
    profile = None \/ (Truthy(profile.full_name) /\ Truthy(profile.location))

\* C4: sign-out leaves no Profile and page welcome, and keeps the
\* recommendations and the chat transcript.
C4_SignOutKeepsHistoryAndChat ==
    [][last'.ev = "sign_out" =>
            /\ profile' = None
            /\ current_page' = "welcome"
            /\ recommendations' = recommendations
            /\ chat_history' = chat_history]_vars

C4_Witness ==
    /\ last.ev = "sign_out"
    /\ profile = None
    /\ Len(recommendations) > 0
    /\ Len(chat_history) > 0

\* C5: "Create Profile" stores a Profile and moves to the dashboard exactly
\* when name and location are non-empty after trimming; otherwise the Profile
\* stays absent, the page stays profile_setup and the error is reported.
C5_CreateIffTrimmedNonEmpty ==
    [][\A name \in NameTexts, location \in LocationTexts, crops \in CropTexts,
          farm_size \in FarmSizeLabels, experience \in ExperienceLabels,
          now \in ClockValues :
            CreateProfile(name, location, farm_size, crops, experience, now) =>
                IF Truthy(Strip(name)) /\ Truthy(Strip(location))
                THEN profile' # None /\ current_page' = "dashboard"
                ELSE /\ profile' = None
                     /\ current_page' = "profile_setup"
                     /\ last'.status = "rejected"]_vars

\* C6: deleting the record that was just appended gives back the collection
\* as it was before the append.
C6_AppendThenDeleteRestores ==
    [][(before_append # None /\ DeleteRecommendation(0)) =>
            recommendations' = before_append.list]_vars

\* C7: "Delete" on the i-th expander removes the record at the position that
\* expander shows and nothing else.
C7_DeleteRemovesSelected ==
    [][\A i \in 0..(Len(recommendations) - 1) :
            DeleteRecommendation(i) =>
                recommendations' =
                    RemoveAt(recommendations, Len(recommendations) - i)]_vars

\* C8: with a snapshot cached, a run of dashboard_page sends no geocoding or
\* weather request and renders the cached snapshot.
C8_CachedSnapshotUsed ==
    [][(weather_data # None /\ DashboardVisit) =>
            /\ last'.calls = << >>
            /\ last'.shown = weather_data
            /\ weather_data' = weather_data]_vars

\* C9: fetch_weather queries the weather endpoint only after its geocoding
\* lookup found a result; on an empty or failed geocode, and on a failed
\* weather request, it returns None without raising.
C9_WeatherOnlyAfterGeocode ==
    last.geo # "-" =>
        /\ last.status # "crashed"
        /\ last.calls \in {<<"geo">>, <<"geo", "weather">>}
        /\ last.calls = <<"geo", "weather">> <=> last.geo = "found"
        /\ last.geo # "found" => last.shown = None
        /\ last.wx \in {"raise", "malformed"} => last.shown = None

C9_Witness ==
    /\ last.geo = "empty"
    /\ last.calls = <<"geo">>
    /\ last.shown = None
    /\ last.status = "ok"

\* the crop-planner step appends one crop_planner record titled with the
\* month and carrying the text, and changes nothing else of the session
CropRecordAppended(month, text) ==
    /\ Len(recommendations') = Len(recommendations) + 1
    /\ SubSeq(recommendations', 1, Len(recommendations)) = recommendations
    /\ recommendations'[Len(recommendations')].type = "crop_planner"
    /\ Contains(recommendations'[Len(recommendations')].title, month)
    /\ recommendations'[Len(recommendations')].response = text
    /\ UNCHANGED <<chat_history, profile, weather_data, current_page>>

\* C10 as stated: a crop-planner submit whose request succeeds, whatever text
\* comes back, appends exactly one record at the end.
C10_CropAppendsForEveryText ==
    [][\A month \in MonthTexts, outcome \in LlmOutcomes, now \in ClockValues :
            (CropPlanner(month, outcome, now) /\ Answer(outcome) # "failed") =>
                CropRecordAppended(month, outcome.content)]_vars

\* C10 amended: a crop-planner submit whose request returns a non-empty text
\* appends exactly one crop_planner record at the end, titled with the
\* selected month; the stored records, chat transcript, Profile,
\* WeatherSnapshot and page are unchanged.
C10_CropAppendsForText ==
    [][\A month \in MonthTexts, outcome \in LlmOutcomes, now \in ClockValues :
            (CropPlanner(month, outcome, now) /\ Answer(outcome) = "text") =>
                CropRecordAppended(month, outcome.content)]_vars

C10_Witness ==
    /\ last.ev = "crop_planner"
    /\ last.status = "saved"
    /\ Len(recommendations) >= 2
    /\ Len(chat_history) > 0
    /\ Contains(recommendations[Len(recommendations)].title, July)

-----------------------------------------------------------------------------
(* C11 .. C20 *)

\* C11 as stated: "Get Started" on the welcome page moves to profile_setup
\* when the Profile is absent and to dashboard when it is present, a session
\* that signed out (and so has no Profile) counted among the latter; nothing
\* else of the session changes.
C11_GetStartedSignedOutToDashboard ==
    [][GetStarted =>
            /\ current_page' = IF profile = None /\ ~signed_out
                               THEN "profile_setup" ELSE "dashboard"
            /\ UNCHANGED <<profile, recommendations, chat_history, weather_data>>]_vars

\* C11 amended: "Get Started" on the welcome page moves to profile_setup when
\* the Profile is absent, which includes a session that signed out, and to
\* dashboard when a Profile is present; nothing else of the session changes.
C11_GetStartedByProfile ==
    [][GetStarted =>
            /\ profile = None => current_page' = "profile_setup"
            /\ profile # None => current_page' = "dashboard"
            /\ UNCHANGED <<profile, recommendations, chat_history, weather_data>>]_vars

C11_Witness ==
    /\ last.ev = "get_started"
    /\ signed_out
    /\ profile = None
    /\ current_page = "profile_setup"
    /\ Len(recommendations) > 0

\* C12: "Save Profile" changes at most full_name, location and primary_crops
\* of the Profile; farm_size, experience_level and created_at, the
\* recommendations, the chat transcript and the page are as before the save.
C12_SaveKeepsOtherFields ==
    [][last'.ev = "save_profile" =>
            /\ profile # None /\ profile' # None
            /\ DOMAIN profile' = DOMAIN profile
            /\ profile'.farm_size = profile.farm_size
            /\ profile'.experience_level = profile.experience_level
            /\ profile'.created_at = profile.created_at
            /\ UNCHANGED <<recommendations, chat_history, current_page>>]_vars

C12_Witness ==
    /\ last.ev = "save_profile"
    /\ profile.full_name = Ann
    /\ profile.location = Blank
    /\ profile.primary_crops = Empty
    /\ profile.farm_size = Medium
    /\ profile.experience_level = Intermediate
    /\ Len(recommendations) = 1

\* C13: a stored Profile has farm_size among small, medium, large, very_large
\* and experience_level among beginner, intermediate, experienced.
C13_CategoriesInEnumerations ==
    profile # None =>
        /\ profile.farm_size \in {Small, Medium, Large, VeryLarge}
        /\ profile.experience_level \in {Beginner, Intermediate, Experienced}

\* d is the lower-case form of the character c
LowerOf(c, d) ==
    IF \E j \in 1..Len(UpperCase) : UpperCase[j] = c
    THEN \E j \in 1..Len(UpperCase) : UpperCase[j] = c /\ LowerCase[j] = d
    ELSE d = c

\* r is the first whitespace-delimited token of label, lower-cased: label is
\* whitespace up to some position, r spells the characters from there on in
\* lower case, none of them whitespace, and whitespace or the end follows
IsLoweredFirstToken(label, r) ==
    \E k \in 1..Len(label) :
        /\ \A j \in 1..(k - 1) : label[j] \in Whitespace
        /\ Len(r) >= 1
        /\ k + Len(r) - 1 <= Len(label)
        /\ \A i \in 1..Len(r) :
                label[k + i - 1] \notin Whitespace /\ LowerOf(label[k + i - 1], r[i])
        /\ k + Len(r) > Len(label) \/ label[k + Len(r)] \in Whitespace

\* C14: the farm_size and experience_level that "Create Profile" stores are
\* the lower-cased first whitespace-delimited token of the selected labels.
C14_CategoryIsLoweredFirstToken ==
    [][(last'.ev = "create_profile" /\ profile' # None) =>
            \A farm_size \in FarmSizeLabels, experience \in ExperienceLabels :
                CreateProfile(profile'.full_name, profile'.location, farm_size,
                              profile'.primary_crops, experience,
                              profile'.created_at) =>
                    /\ IsLoweredFirstToken(farm_size, profile'.farm_size)
                    /\ IsLoweredFirstToken(experience, profile'.experience_level)]_vars

C14_Witness ==
    /\ last.ev = "create_profile"
    /\ profile # None
    /\ profile.farm_size = Very
    /\ profile.experience_level = Beginner

\* C15: sign-out leaves no cached snapshot, and the first run of
\* dashboard_page after a Profile is created in a signed-out session sends
\* the geocoding request for the new location.
C15_SignOutClearsSnapshot ==
    [][/\ last'.ev = "sign_out" => weather_data' = None
       /\ (signed_out /\ last.ev = "create_profile" /\ last.status = "ok"
                /\ DashboardVisit) =>
            /\ last'.calls # << >>
            /\ last'.shown # None => weather_for' = profile.location]_vars

\* C16 as stated: in every script run that changes the page, the page is the
\* only field of the session that changes.
C16_PageChangeChangesOnlyPage ==
    [][current_page' # current_page =>
            UNCHANGED <<profile, weather_data, recommendations, chat_history>>]_vars

\* C16 amended: a script run that changes the page leaves the recommendations
\* and the chat transcript as they were; "Get Started" and the sidebar buttons
\* change the page only; "Create Profile" also stores the Profile, "Sign Out"
\* also clears it, and a dashboard tool button also caches the snapshot the
\* run fetched when none was cached.
C16_PageChangeFrame ==
    [][current_page' # current_page =>
            /\ UNCHANGED <<recommendations, chat_history>>
            /\ last'.ev \in {"get_started", "sidebar", "create_profile", "sign_out",
                              "tool"}
            /\ last'.ev \in {"get_started", "sidebar"} =>
                    UNCHANGED <<profile, weather_data>>
            /\ last'.ev = "create_profile" =>
                    profile = None /\ profile' # None /\ UNCHANGED weather_data
            /\ last'.ev = "sign_out" =>
                    profile' = None /\ UNCHANGED weather_data
            /\ last'.ev = "tool" =>
                    /\ UNCHANGED profile
                    /\ weather_data' # weather_data =>
                            weather_data = None /\ weather_data' = last'.shown]_vars

C16_Witness ==
    /\ last.ev = "tool"
    /\ last.calls = <<"geo", "weather">>
    /\ weather_data # None
    /\ current_page = "crop_planner"
    /\ Len(recommendations) + Len(chat_history) > 0

\* the script runs whose widget event needs a completion
NeedsCompletion ==
    /\ last.ev \in {"crop_planner", "soil_optimizer", "pest_identifier", "chat"}
    /\ last.status # "rejected"

\* C17: without a client a run that needs a completion is stopped and sends
\* no request; with a client it sends one request and no more, whether or not
\* the request fails; no other run sends a completion request.
C17_OneRequestOrNone ==
    /\ (NeedsCompletion /\ ~client) =>
            last.status = "stopped" /\ last.calls = << >>
    /\ (NeedsCompletion /\ client) =>
            /\ last.calls = <<"llm">>
            /\ last.status \in {"stopped", "saved", "failed"}
    /\ ~NeedsCompletion => \A i \in 1..Len(last.calls) : last.calls[i] # "llm"

C17_Witness ==
    /\ ~client
    /\ last.ev = "chat"
    /\ last.status = "stopped"
    /\ last.calls = << >>

C19_NullNotCachedAndRetried ==
    [][DashboardVisit =>
            /\ (last'.calls # << >> /\ last'.shown = None) =>
                    /\ weather_data' = None
                    /\ UNCHANGED <<profile, recommendations, chat_history>>
                    /\ last'.ev = "render" => UNCHANGED current_page
                    /\ last'.status = "ok"
            /\ (profile # None /\ weather_data = None) => last'.calls # << >>]_vars

\* the fallback a page's prompt is to carry for a profile field left unfilled
Fallback(ev, field) ==
    CASE field = "full_name" -> Farmer
      [] field = "location" -> NotSpecified
      [] field = "farm_size" -> DefaultFarmSize
      [] field = "experience_level" -> DefaultExperience
      [] field = "primary_crops" ->
            IF ev = "crop_planner" THEN NoneText
            ELSE IF ev = "soil_optimizer" THEN VariousCrops
            ELSE Various

\* C20: every profile value a prompt interpolates is the Profile's value when
\* the field is filled and the field's fallback when it is empty.
C20_PromptFallbacks ==
    last.prompt # None =>
        \A field \in DOMAIN last.prompt :
            last.prompt[field] = IF Truthy(profile[field]) THEN profile[field]
                                 ELSE Fallback(last.ev, field)

-----------------------------------------------------------------------------
(* C21 .. C24 *)

\* C21: on every page other than welcome and profile_setup a Profile is
\* present, so that no page function that reads the Profile runs without one
\* (no run ends in its exception); on profile_setup the Profile is absent.
C21_PagesBehindProfile ==
    /\ current_page \notin {"welcome", "profile_setup"} => profile # None
    /\ current_page = "profile_setup" => profile = None
    /\ last.status # "crashed"

C21_Witness ==
    /\ signed_out
    /\ profile # None
    /\ current_page = "settings"
    /\ last.ev = "render"

\* C22: whenever a snapshot is cached and a Profile is present, the snapshot
\* was fetched for the Profile's current location.
C22_SnapshotForCurrentLocation ==
    (weather_data # None /\ profile # None) => weather_for = profile.location

\* every assistant message of the transcript comes right after a user message
AssistantAfterUser ==
    \A i \in 1..Len(chat_history) :
        chat_history[i].role = "assistant" =>
            i > 1 /\ chat_history[i - 1].role = "user"

\* C23: every assistant message is immediately preceded by a user message,
\* and every script run other than "Clear Chat History" leaves the transcript
\* it found as a prefix of the transcript it leaves.
C23_TranscriptAlternatesAndGrows ==
    [][/\ AssistantAfterUser
       /\ AssistantAfterUser'
       /\ last'.ev # "clear_chat" =>
            /\ Len(chat_history) <= Len(chat_history')
            /\ SubSeq(chat_history', 1, Len(chat_history)) = chat_history]_vars

C23_Witness ==
    /\ last.ev = "chat"
    /\ Len(chat_history) = 3
    /\ chat_history[1].role = "user"
    /\ chat_history[2].role = "assistant"
    /\ chat_history[3].role = "user"

\* the script run handled "Get Weather Advice", "Get Tips", or an "Identify
\* Pest" submit with the crop or the symptoms left empty
StaticAdviceRun ==
    \/ WeatherAlerts
    \/ CostTips
    \/ \E crop \in {Empty, Corn}, symptoms \in {Empty, Holes},
          outcome \in LlmOutcomes, now \in ClockValues :
            /\ crop = Empty \/ symptoms = Empty
            /\ PestIdentifier(crop, symptoms, outcome, now)

\* C24: such a run sends no request to any service and leaves the Profile,
\* the cached snapshot, the recommendations, the chat transcript and the page
\* unchanged.
C24_StaticAdviceChangesNothing ==
    [][StaticAdviceRun =>
            /\ last'.calls = << >>
            /\ UNCHANGED <<profile, weather_data, recommendations, chat_history,
                           current_page>>]_vars

C24_Witness ==
    /\ last.ev = "pest_identifier"
    /\ last.status = "rejected"
    /\ client
    /\ weather_data # None
    /\ Len(recommendations) > 0

====
